---- MODULE Spec2Model ----
(***************************************************************************)
(* State-machine model of src/src/material.py : merge_materials (the atlas *)
(* merger) and the load_mtl / save_mtl material codec.                     *)
(*                                                                         *)
(* Python indices are 0-based; TLA+ sequences are 1-based, so a Python     *)
(* index i reads seq[i + 1].  Floating-point numbers are modelled as exact *)
(* rationals [n |-> numerator, d |-> denominator] with d > 0.  A           *)
(* resolution is <<height, width>>, as getRes() returns it.                *)
(***************************************************************************)
EXTENDS Integers, Sequences, FiniteSets

VARIABLES
    pc,               \* position of the running call
    materials,        \* merge_materials argument: list of material dicts
    materials0,       \* the material list as it was when the call started
    texcoords,        \* merge_materials argument: list of (u, v)
    texcoords0,       \* the texture coordinate table when the call started
    tfaces,           \* merge_materials argument: per face three UV indices
    tfaces0,          \* the face table as it was when the call started
    mfaces,           \* merge_materials argument: per face a material index
    uber_material,    \* local of merge_materials
    max_res,          \* local of merge_materials
    full_res,         \* local of merge_materials
    s_coeff,          \* local of merge_materials
    new_tverts,       \* local of merge_materials: ti -> matIdx -> new index
    new_tverts_data,  \* local of merge_materials
    fi,               \* loop variable of merge_materials
    vi,               \* loop variable of merge_materials
    result,           \* what the call gave back to its caller
    mpc,              \* position of the running load_mtl / save_mtl call
    clear_ks,         \* load_mtl argument
    mtl_file,         \* the .mtl file at fn: its lines, split into tokens
    img_files,        \* the image files beside it: file name -> pixel
    material,         \* save_mtl argument
    mtl_materials,    \* load_mtl local `materials`
    line_no,          \* load_mtl: number of lines parsed so far
    mat_no,           \* load_mtl: number of materials converted so far
    mtl_error,        \* the exception a codec call raised, or "none"
    first_file,       \* the .mtl file as the first save_mtl call left it
    first_images      \* the image files as the first save_mtl call left them

merge_vars == <<pc, materials, materials0, texcoords, texcoords0, tfaces, tfaces0, mfaces,
                uber_material, max_res, full_res, s_coeff, new_tverts,
                new_tverts_data, fi, vi, result>>

codec_vars == <<mpc, clear_ks, mtl_file, img_files, material, mtl_materials,
                line_no, mat_no, mtl_error, first_file, first_images>>

vars == <<merge_vars, codec_vars>>

----------------------------------------------------------------------------
(* Bounds of the model *)

MaxMats == 2
MaxFaces == 2
MaxDim == 2
UVDen == 2
PixMax == 2
MaxLines == 2

----------------------------------------------------------------------------
(* Numbers *)

Rat(n, d) == [n |-> n, d |-> d]

RatAdd(a, b) == [n |-> a.n * b.d + b.n * a.d, d |-> a.d * b.d]

RatDiv(a, b) == [n |-> a.n * b.d, d |-> a.d * b.n]

RatLe(a, b) == a.n * b.d <= b.n * a.d

RatLt(a, b) == a.n * b.d < b.n * a.d

RatEq(a, b) == a.n * b.d = b.n * a.d

Max(a, b) == IF a >= b THEN a ELSE b

RECURSIVE Pow2(_)
Pow2(k) == IF k = 0 THEN 1 ELSE 2 * Pow2(k - 1)

RECURSIVE CeilLog2From(_, _)
CeilLog2From(x, k) == IF Pow2(k) >= x THEN k ELSE CeilLog2From(x, k + 1)

(* A variant that rounds an exact power of two up to the next one. *)
FloorLog2Plus1(x) == CeilLog2From(x + 1, 0)

CeilLog2(x) == CeilLog2From(x, 0)

----------------------------------------------------------------------------
(* Textures and material dicts *)

Texture2D(res, data) == [res |-> res, data |-> data]

getRes(tex) == tex.res

Has(m, key) == key \in DOMAIN m

SetKey(m, key, val) ==
    [k \in DOMAIN m \cup {key} |-> IF k = key THEN val ELSE m[k]]

FlatNormal == Texture2D(<<1, 1>>, "flat_normal")

Material(name, bsdf, kd, ks) ==
    [name |-> name, bsdf |-> bsdf, kd |-> kd, ks |-> ks]

textures == <<"kd", "ks", "normal">>

EmptyDict == [k \in {} |-> 0]

NoResult == [status |-> "pending", value |-> <<>>]

----------------------------------------------------------------------------
(* merge_materials: the pure parts *)

has_norm(mats) == [i \in 1..Len(mats) |-> Has(mats[i], "normal")]

(* A variant without the normalization patch. *)
NoInject(mats) == mats

(* A variant that rebinds the normal slot of every record of a mixed list. *)
InjectAll(mats) ==
    IF (\E i \in 1..Len(mats) : has_norm(mats)[i])
       /\ ~(\A i \in 1..Len(mats) : has_norm(mats)[i])
    THEN [i \in 1..Len(mats) |-> SetKey(mats[i], "normal", FlatNormal)]
    ELSE mats

InjectNormals(mats) ==
    IF (\E i \in 1..Len(mats) : has_norm(mats)[i])
       /\ ~(\A i \in 1..Len(mats) : has_norm(mats)[i])
    THEN [i \in 1..Len(mats) |->
            IF ~Has(mats[i], "normal")
            THEN SetKey(mats[i], "normal", FlatNormal)
            ELSE mats[i]]
    ELSE mats

(* A variant with the shader-model assertion left out. *)
BsdfUnchecked(mats) == FALSE

BsdfMismatch(mats) ==
    \E i \in 1..Len(mats) : mats[i]["bsdf"] # mats[1]["bsdf"]

NormalMismatch(mats) ==
    \E i \in 1..Len(mats) : Has(mats[i], "normal") # Has(mats[1], "normal")

TexRes(mat, tex) == IF Has(mat, tex) THEN getRes(mat[tex]) ELSE <<1, 1>>

Maximum(a, b) == <<Max(a[1], b[1]), Max(a[2], b[2])>>

MatRes(mat) ==
    Maximum(Maximum(TexRes(mat, textures[1]), TexRes(mat, textures[2])),
            TexRes(mat, textures[3]))

RECURSIVE MaxResUpTo(_, _)
MaxResUpTo(mats, k) ==
    IF k = 1 THEN MatRes(mats[1])
    ELSE Maximum(MaxResUpTo(mats, k - 1), MatRes(mats[k]))

MaxRes(mats) == MaxResUpTo(mats, Len(mats))

FullRes(mres, count) ==
    <<Pow2(CeilLog2(mres[1] * 1)), Pow2(CeilLog2(mres[2] * count))>>

scale_img_nhwc(data, res) == [src |-> data, res |-> res]

Cat(mats, tex, mres) ==
    [res |-> <<mres[1], mres[2] * Len(mats)>>,
     cells |-> [i \in 1..Len(mats) |-> scale_img_nhwc(mats[i][tex]["data"], mres)]]

upscale_replicate(x, fres) ==
    [res |-> fres, cells |-> x.cells,
     pad |-> <<fres[1] - x.res[1], fres[2] - x.res[2]>>]

UberTexture(mats, tex, mres, fres) ==
    LET tex_data == upscale_replicate(Cat(mats, tex, mres), fres)
    IN  Texture2D(tex_data.res, tex_data)

UberMaterial(mats, mres, fres) ==
    LET present == {t \in {"kd", "ks", "normal"} : Has(mats[1], t)}
    IN  [k \in {"name", "bsdf"} \cup present |->
            IF k = "name" THEN "uber_material"
            ELSE IF k = "bsdf" THEN mats[1]["bsdf"]
            ELSE UberTexture(mats, k, mres, fres)]

(* A variant with the two axes exchanged. *)
SCoeffSwapped(fres, mres) == <<Rat(fres[2], mres[2]), Rat(fres[1], mres[1])>>

SCoeff(fres, mres) == <<Rat(fres[1], mres[1]), Rat(fres[2], mres[2])>>

EnsureRow(nt, ti) == IF ti \in DOMAIN nt THEN nt ELSE SetKey(nt, ti, EmptyDict)

(* A variant that never reuses an entry. *)
AlwaysNewVertex(nt, ti, matIdx) == TRUE

NeedsNewVertex(nt, ti, matIdx) == ~(matIdx \in DOMAIN nt[ti])

(* A variant that leaves out the material offset. *)
NewTvertNoOffset(matIdx, uv, sc) ==
    <<RatDiv(uv[1], sc[2]), RatDiv(uv[2], sc[1])>>

(* A variant that scales u by the row coefficient and v by the column one. *)
NewTvertSameAxes(matIdx, uv, sc) ==
    <<RatDiv(RatAdd(Rat(matIdx, 1), uv[1]), sc[1]), RatDiv(uv[2], sc[2])>>

NewTvert(matIdx, uv, sc) ==
    <<RatDiv(RatAdd(Rat(matIdx, 1), uv[1]), sc[2]), RatDiv(uv[2], sc[1])>>

----------------------------------------------------------------------------
(* merge_materials: the steps of one call *)

AssertNonEmpty ==
    /\ pc = "start"
    /\ Len(materials) > 0
    /\ pc' = "patch"
    /\ UNCHANGED <<materials, materials0, texcoords, texcoords0, tfaces, tfaces0, mfaces,
                   uber_material, max_res, full_res, s_coeff, new_tverts,
                   new_tverts_data, fi, vi, result>>
    /\ UNCHANGED codec_vars

AssertNonEmptyFails ==
    /\ pc = "start"
    /\ ~(Len(materials) > 0)
    /\ pc' = "error"
    /\ result' = [status |-> "AssertionError", value |-> <<>>]
    /\ UNCHANGED <<materials, materials0, texcoords, texcoords0, tfaces, tfaces0, mfaces,
                   uber_material, max_res, full_res, s_coeff, new_tverts,
                   new_tverts_data, fi, vi>>
    /\ UNCHANGED codec_vars

Patch ==
    /\ pc = "patch"
    /\ materials' = InjectNormals(materials)
    /\ pc' = "check"
    /\ UNCHANGED <<materials0, texcoords, texcoords0, tfaces, tfaces0, mfaces,
                   uber_material, max_res, full_res, s_coeff, new_tverts,
                   new_tverts_data, fi, vi, result>>
    /\ UNCHANGED codec_vars

CheckMaterials ==
    /\ pc = "check"
    /\ ~BsdfMismatch(materials)
    /\ ~NormalMismatch(materials)
    /\ pc' = "build"
    /\ UNCHANGED <<materials, materials0, texcoords, texcoords0, tfaces, tfaces0, mfaces,
                   uber_material, max_res, full_res, s_coeff, new_tverts,
                   new_tverts_data, fi, vi, result>>
    /\ UNCHANGED codec_vars

CheckMaterialsFails ==
    /\ pc = "check"
    /\ BsdfMismatch(materials) \/ NormalMismatch(materials)
    /\ pc' = "error"
    /\ result' = [status |-> "AssertionError", value |-> <<>>]
    /\ UNCHANGED <<materials, materials0, texcoords, texcoords0, tfaces, tfaces0, mfaces,
                   uber_material, max_res, full_res, s_coeff, new_tverts,
                   new_tverts_data, fi, vi>>
    /\ UNCHANGED codec_vars

BuildUber ==
    /\ pc = "build"
    /\ max_res' = MaxRes(materials)
    /\ full_res' = FullRes(max_res', Len(materials))
    /\ uber_material' = UberMaterial(materials, max_res', full_res')
    /\ s_coeff' = SCoeff(full_res', max_res')
    /\ new_tverts' = EmptyDict
    /\ new_tverts_data' = <<>>
    /\ fi' = 0
    /\ vi' = 0
    /\ pc' = IF Len(tfaces) > 0 THEN "rewrite" ELSE "return"
    /\ UNCHANGED <<materials, materials0, texcoords, texcoords0, tfaces, tfaces0, mfaces,
                   result>>
    /\ UNCHANGED codec_vars

RewriteCorner ==
    /\ pc = "rewrite"
    /\ LET matIdx == mfaces[fi + 1]
           ti == tfaces[fi + 1][vi + 1]
           row == EnsureRow(new_tverts, ti)
           create == NeedsNewVertex(row, ti, matIdx)
           data == IF create
                   THEN Append(new_tverts_data,
                               NewTvert(matIdx, texcoords[ti + 1], s_coeff))
                   ELSE new_tverts_data
           nt == IF create
                 THEN [row EXCEPT ![ti] = SetKey(@, matIdx, Len(data) - 1)]
                 ELSE row
       IN  /\ new_tverts_data' = data
           /\ new_tverts' = nt
           /\ tfaces' = [tfaces EXCEPT ![fi + 1][vi + 1] = nt[ti][matIdx]]
    /\ IF vi < 2
       THEN /\ vi' = vi + 1
            /\ fi' = fi
            /\ pc' = "rewrite"
       ELSE /\ vi' = 0
            /\ fi' = fi + 1
            /\ pc' = IF fi + 1 < Len(tfaces) THEN "rewrite" ELSE "return"
    /\ UNCHANGED <<materials, materials0, texcoords, texcoords0, tfaces0, mfaces,
                   uber_material, max_res, full_res, s_coeff, result>>
    /\ UNCHANGED codec_vars

Return ==
    /\ pc = "return"
    /\ result' = [status |-> "returned",
                  value |-> <<uber_material, new_tverts_data, tfaces>>]
    /\ pc' = "done"
    /\ UNCHANGED <<materials, materials0, texcoords, texcoords0, tfaces, tfaces0, mfaces,
                   uber_material, max_res, full_res, s_coeff, new_tverts,
                   new_tverts_data, fi, vi>>
    /\ UNCHANGED codec_vars

----------------------------------------------------------------------------
(* The .mtl codec: tokens, values and textures                             *)
(*                                                                         *)
(* A line of the file is [prefix, data]: split_line[0] as a sequence of    *)
(* characters and split_line[1:] as a sequence of tokens.  A value of a    *)
(* material dict is tagged with its Python type.  Texel values are held    *)
(* as integers: an image file stores levels 0..PixMax (level PixMax is     *)
(* 1.0); in memory ks and normal are in units of 1/PixMax and linear kd    *)
(* in units of 1/PixMax^2.  A texture of the codec is one RGB texel.       *)

K_newmtl == <<"n", "e", "w", "m", "t", "l">>
K_name == <<"n", "a", "m", "e">>
K_bsdf == <<"b", "s", "d", "f">>
K_map_kd == <<"m", "a", "p", "_", "k", "d">>
K_map_ks == <<"m", "a", "p", "_", "k", "s">>
K_bump == <<"b", "u", "m", "p">>
K_map_ns == <<"m", "a", "p", "_", "n", "s">>
K_ns == <<"n", "s">>
K_ka == <<"k", "a">>
K_refl == <<"r", "e", "f", "l">>
K_kd == <<"k", "d">>
K_ks == <<"k", "s">>
K_normal == <<"n", "o", "r", "m", "a", "l">>

W_map_Kd == <<"m", "a", "p", "_", "K", "d">>
W_map_Ks == <<"m", "a", "p", "_", "K", "s">>
W_Kd == <<"K", "d">>
W_Ks == <<"K", "s">>
W_Ka == <<"K", "a">>
W_Ns == <<"N", "s">>
W_Ni == <<"N", "i">>
W_Tf == <<"T", "f">>

LowerChar(c) ==
    CASE c = "K" -> "k"
      [] c = "N" -> "n"
      [] c = "T" -> "t"
      [] c = "M" -> "m"
      [] OTHER -> c

Lower(word) == [i \in 1..Len(word) |-> LowerChar(word[i])]

IsSubstr(k, word) ==
    \E i \in 0..(Len(word) - Len(k)) : SubSeq(word, i + 1, i + Len(k)) = k

StringKeys ==
    <<K_bsdf, K_map_kd, K_map_ks, K_bump, K_map_ns, K_ns, K_ka, K_refl>>

(* A variant that compares the key for equality. *)
IsStringKeyExact(prefix) ==
    \E j \in 1..Len(StringKeys) : StringKeys[j] = prefix

IsStringKey(prefix) ==
    \E j \in 1..Len(StringKeys) : IsSubstr(StringKeys[j], prefix)

IsNewmtl(prefix) == IsSubstr(K_newmtl, prefix)

Line(prefix, data) == [prefix |-> prefix, data |-> data]

StrVal(x) == [type |-> "str", val |-> x]

Tensor(v) == [type |-> "tensor", val |-> v]

Tex(texel) == [type |-> "Texture2D", val |-> texel]

IsFloat(tok) == tok \in {"0", "1", "2"}

Float(tok) == CASE tok = "0" -> 0 [] tok = "1" -> 1 [] tok = "2" -> 2

Floats(data) == [i \in 1..Len(data) |-> Float(data[i])]

ConstTexture(tensor) == Tex([i \in 1..Len(tensor.val) |-> tensor.val[i] * PixMax])

load_texture2D(files, fname) == Tex(files[fname])

(* A variant that forgets the offset of the decoding. *)
DecodeNormalNoBias(x) == x * 2

DecodeNormal(x) == x * 2 - PixMax

EncodeNormal(x) == (x + PixMax) \div 2

RECURSIVE ISqrt(_)
ISqrt(y) == IF y = 0 THEN 0
            ELSE LET r == ISqrt(y - 1) IN IF (r + 1) * (r + 1) <= y THEN r + 1 ELSE r

srgb_to_rgb_texel(e) == e * e

rgb_to_srgb_texel(l) == ISqrt(l)

srgb_to_rgb(tex) == Tex([i \in 1..Len(tex.val) |-> srgb_to_rgb_texel(tex.val[i])])

rgb_to_srgb(tex) == Tex([i \in 1..Len(tex.val) |-> rgb_to_srgb_texel(tex.val[i])])

DecodeTexture(tex) == Tex([i \in 1..Len(tex.val) |-> DecodeNormal(tex.val[i])])

EncodeTexture(tex) == Tex([i \in 1..Len(tex.val) |-> EncodeNormal(tex.val[i])])

ClearOcclusion(tex) ==
    Tex([i \in 1..Len(tex.val) |-> IF i = 1 THEN 0 ELSE tex.val[i]])

Get(m, key) == Has(m, key) /\ (m[key].type = "str" => m[key].val # "")

----------------------------------------------------------------------------
(* load_mtl: parsing one line (lines 32-43) *)

ParseError(mats, line) ==
    LET prefix == Lower(line.prefix)
    IN  IF IsNewmtl(prefix)
        THEN IF Len(line.data) = 0 THEN "IndexError" ELSE "none"
        ELSE IF Len(mats) = 0 THEN "none"
        ELSE IF IsStringKey(prefix)
        THEN IF Len(line.data) = 0 THEN "IndexError" ELSE "none"
        ELSE IF \E i \in 1..Len(line.data) : ~IsFloat(line.data[i])
        THEN "ValueError" ELSE "none"

ParseLine(mats, line) ==
    LET prefix == Lower(line.prefix)
        last == Len(mats)
    IN  IF IsNewmtl(prefix)
        THEN Append(mats, SetKey(EmptyDict, K_name, StrVal(line.data[1])))
        ELSE IF Len(mats) = 0 THEN mats
        ELSE IF IsStringKey(prefix)
        THEN [mats EXCEPT ![last] = SetKey(@, prefix, StrVal(line.data[1]))]
        ELSE [mats EXCEPT ![last] = SetKey(@, prefix, Tensor(Floats(line.data)))]

(* load_mtl: converting one material to textures (lines 46-69) *)

ConvertError(mat, files) ==
    IF Has(mat, K_map_kd) /\ ~(mat[K_map_kd].val \in DOMAIN files)
    THEN "MissingAsset"
    ELSE IF ~Has(mat, K_map_kd) /\ ~Has(mat, K_kd) THEN "KeyError"
    ELSE IF Has(mat, K_map_ks) /\ ~(mat[K_map_ks].val \in DOMAIN files)
    THEN "MissingAsset"
    ELSE IF ~Has(mat, K_map_ks) /\ ~Has(mat, K_ks) THEN "KeyError"
    ELSE IF Has(mat, K_bump) /\ ~(mat[K_bump].val \in DOMAIN files)
    THEN "MissingAsset"
    ELSE "none"

ConvertMaterial(mat, files, clear) ==
    LET m1 == IF ~Has(mat, K_bsdf) THEN SetKey(mat, K_bsdf, StrVal("pbr")) ELSE mat
        m2 == IF Has(m1, K_map_kd)
              THEN SetKey(m1, K_kd, load_texture2D(files, m1[K_map_kd].val))
              ELSE SetKey(m1, K_kd, ConstTexture(m1[K_kd]))
        m3 == IF Has(m2, K_map_ks)
              THEN SetKey(m2, K_ks, load_texture2D(files, m2[K_map_ks].val))
              ELSE SetKey(m2, K_ks, ConstTexture(m2[K_ks]))
        m4 == IF Has(m3, K_bump)
              THEN SetKey(m3, K_normal,
                          DecodeTexture(load_texture2D(files, m3[K_bump].val)))
              ELSE m3
        m5 == SetKey(m4, K_kd, srgb_to_rgb(m4[K_kd]))
    IN  IF clear THEN SetKey(m5, K_ks, ClearOcclusion(m5[K_ks])) ELSE m5

(* save_mtl (lines 74-121) *)

SaveLines(mat) ==
    <<Line(K_newmtl, <<"defaultMat">>)>>
    \o (IF Get(mat, K_bsdf) THEN <<Line(K_bsdf, <<mat[K_bsdf].val>>)>> ELSE <<>>)
    \o (IF Get(mat, K_kd)
        THEN <<Line(W_map_Kd, <<"texture_kd.png">>)>>
        ELSE <<Line(W_Kd, <<"1", "1", "1">>)>>)
    \o <<Line(W_Ka, <<"0", "0", "0">>)>>
    \o (IF Get(mat, K_ks)
        THEN <<Line(W_map_Ks, <<"texture_ks.png">>)>>
        ELSE <<Line(W_Ks, <<"0", "0", "0">>)>>)
    \o <<Line(W_Ns, <<"0">>)>>
    \o <<Line(W_Ni, <<"1">>)>>
    \o <<Line(W_Tf, <<"1", "1", "1">>)>>
    \o (IF Get(mat, K_normal) THEN <<Line(K_bump, <<"texture_n.png">>)>> ELSE <<>>)

save_texture2D(files, fname, tex) ==
    [f \in DOMAIN files \cup {fname} |-> IF f = fname THEN tex.val ELSE files[f]]

SaveImages(mat, files) ==
    LET f1 == IF Get(mat, K_kd)
              THEN save_texture2D(files, "texture_kd.png", rgb_to_srgb(mat[K_kd]))
              ELSE files
        f2 == IF Get(mat, K_ks)
              THEN save_texture2D(f1, "texture_ks.png", mat[K_ks])
              ELSE f1
    IN  IF Get(mat, K_normal)
        THEN save_texture2D(f2, "texture_n.png", EncodeTexture(mat[K_normal]))
        ELSE f2

----------------------------------------------------------------------------
(* The codec calls, step by step *)

SaveMtl ==
    /\ mpc = "save"
    /\ mtl_file' = SaveLines(material)
    /\ img_files' = SaveImages(material, img_files)
    /\ first_file' = mtl_file'
    /\ first_images' = img_files'
    /\ mpc' = "parse"
    /\ UNCHANGED <<clear_ks, material, mtl_materials, line_no, mat_no, mtl_error>>
    /\ UNCHANGED merge_vars

LoadParseLine ==
    /\ mpc = "parse"
    /\ line_no < Len(mtl_file)
    /\ ParseError(mtl_materials, mtl_file[line_no + 1]) = "none"
    /\ mtl_materials' = ParseLine(mtl_materials, mtl_file[line_no + 1])
    /\ line_no' = line_no + 1
    /\ UNCHANGED <<mpc, clear_ks, mtl_file, img_files, material, mat_no, mtl_error,
                   first_file, first_images>>
    /\ UNCHANGED merge_vars

LoadParseLineFails ==
    /\ mpc = "parse"
    /\ line_no < Len(mtl_file)
    /\ ParseError(mtl_materials, mtl_file[line_no + 1]) # "none"
    /\ mtl_error' = ParseError(mtl_materials, mtl_file[line_no + 1])
    /\ mpc' = "error"
    /\ UNCHANGED <<clear_ks, mtl_file, img_files, material, mtl_materials, line_no,
                   mat_no, first_file, first_images>>
    /\ UNCHANGED merge_vars

LoadParsed ==
    /\ mpc = "parse"
    /\ line_no = Len(mtl_file)
    /\ mpc' = "convert"
    /\ UNCHANGED <<clear_ks, mtl_file, img_files, material, mtl_materials, line_no,
                   mat_no, mtl_error, first_file, first_images>>
    /\ UNCHANGED merge_vars

LoadConvert ==
    /\ mpc = "convert"
    /\ mat_no < Len(mtl_materials)
    /\ ConvertError(mtl_materials[mat_no + 1], img_files) = "none"
    /\ mtl_materials' = [mtl_materials EXCEPT ![mat_no + 1] =
                            ConvertMaterial(@, img_files, clear_ks)]
    /\ mat_no' = mat_no + 1
    /\ UNCHANGED <<mpc, clear_ks, mtl_file, img_files, material, line_no, mtl_error,
                   first_file, first_images>>
    /\ UNCHANGED merge_vars

LoadConvertFails ==
    /\ mpc = "convert"
    /\ mat_no < Len(mtl_materials)
    /\ ConvertError(mtl_materials[mat_no + 1], img_files) # "none"
    /\ mtl_error' = ConvertError(mtl_materials[mat_no + 1], img_files)
    /\ mpc' = "error"
    /\ UNCHANGED <<clear_ks, mtl_file, img_files, material, mtl_materials, line_no,
                   mat_no, first_file, first_images>>
    /\ UNCHANGED merge_vars

LoadReturn ==
    /\ mpc = "convert"
    /\ mat_no = Len(mtl_materials)
    /\ mpc' = "loaded"
    /\ UNCHANGED <<clear_ks, mtl_file, img_files, material, mtl_materials, line_no,
                   mat_no, mtl_error, first_file, first_images>>
    /\ UNCHANGED merge_vars

SaveLoaded ==
    /\ mpc = "loaded"
    /\ Len(mtl_materials) > 0
    /\ material' = mtl_materials[1]
    /\ mtl_file' = SaveLines(material')
    /\ img_files' = SaveImages(material', img_files)
    /\ mpc' = "done"
    /\ UNCHANGED <<clear_ks, mtl_materials, line_no, mat_no, mtl_error,
                   first_file, first_images>>
    /\ UNCHANGED merge_vars

----------------------------------------------------------------------------
(* The calls the model makes *)

Tex1x1(data) == Texture2D(<<1, 1>>, data)

Mat1x1 == Material("mat", "pbr", Tex1x1("kd"), Tex1x1("ks"))

ResMats ==
    {Material("mat", "pbr", Texture2D(<<h, w>>, "kd"), Tex1x1("ks")) :
        h \in 1..MaxDim, w \in 1..MaxDim}

KsMat == Material("mat", "pbr", Tex1x1("kd"), Texture2D(<<MaxDim + 1, 1>>, "ks"))

NormMats ==
    {SetKey(Mat1x1, "normal", Texture2D(r, "normal")) :
        r \in {<<1, 1>>, <<1, MaxDim + 1>>}}

DiffuseMat == Material("mat", "diffuse", Tex1x1("kd"), Tex1x1("ks"))

DiffuseMats == {DiffuseMat, SetKey(DiffuseMat, "normal", Tex1x1("normal"))}

MaterialSet == ResMats \cup {KsMat} \cup NormMats \cup DiffuseMats

WideMat == Material("mat", "pbr", Texture2D(<<2, 3>>, "kd"), Tex1x1("ks"))

TallMat == Material("mat", "pbr", Tex1x1("kd"), Texture2D(<<3, 1>>, "ks"))

GeomLists == {<<WideMat>>, <<Mat1x1, TallMat>>, <<WideMat, TallMat>>}

UV(un, vn) == <<Rat(un, UVDen), Rat(vn, UVDen)>>

ScenarioTexcoords == <<UV(0, 0), UV(UVDen, 0), UV(0, UVDen)>>

UVSet == {UV(un, vn) : un \in -1..(UVDen + 1), vn \in {0, 1}}

FaceRows == {<<0, 1, 2>>, <<2, 1, 0>>, <<0, 0, 1>>, <<1, 2, 2>>, <<1, 1, 1>>}

InitLocals ==
    /\ pc = "start"
    /\ materials0 = materials
    /\ texcoords0 = texcoords
    /\ tfaces0 = tfaces
    /\ uber_material = EmptyDict
    /\ max_res = <<0, 0>>
    /\ full_res = <<0, 0>>
    /\ s_coeff = <<Rat(0, 1), Rat(0, 1)>>
    /\ new_tverts = EmptyDict
    /\ new_tverts_data = <<>>
    /\ fi = 0
    /\ vi = 0
    /\ result = NoResult

InitDedup ==
    /\ \E k \in 1..MaxMats :
          /\ materials = [i \in 1..k |-> Mat1x1]
          /\ \E f \in 0..MaxFaces :
                /\ tfaces \in [1..f -> FaceRows]
                /\ mfaces \in [1..f -> 0..(k - 1)]
    /\ texcoords = ScenarioTexcoords

InitGeom ==
    /\ materials \in GeomLists
    /\ texcoords \in [1..3 -> UVSet]
    /\ tfaces = <<<<0, 1, 2>>>>
    /\ mfaces \in [1..1 -> 0..(Len(materials) - 1)]

InitMats ==
    /\ \E k \in 0..MaxMats : materials \in [1..k -> MaterialSet]
    /\ texcoords = ScenarioTexcoords
    /\ tfaces = <<<<0, 1, 2>>>>
    /\ mfaces = <<Max(Len(materials), 1) - 1>>

CodecIdle ==
    /\ mpc = "idle"
    /\ clear_ks = TRUE
    /\ mtl_file = <<>>
    /\ img_files = EmptyDict
    /\ material = EmptyDict
    /\ mtl_materials = <<>>
    /\ line_no = 0
    /\ mat_no = 0
    /\ mtl_error = "none"
    /\ first_file = <<>>
    /\ first_images = EmptyDict

Init ==
    /\ InitDedup \/ InitGeom \/ InitMats
    /\ InitLocals
    /\ CodecIdle

Next ==
    \/ AssertNonEmpty
    \/ AssertNonEmptyFails
    \/ Patch
    \/ CheckMaterials
    \/ CheckMaterialsFails
    \/ BuildUber
    \/ RewriteCorner
    \/ Return

Spec == Init /\ [][Next]_vars

----------------------------------------------------------------------------
(* The codec calls the model makes *)

Levels == 0..PixMax

KdTexels == {<<srgb_to_rgb_texel(a), srgb_to_rgb_texel(a), srgb_to_rgb_texel(PixMax - a)>> :
                a \in Levels}

KsTexels == {<<a, b, b>> : a \in Levels, b \in Levels}

NormalTexels == {<<DecodeNormal(a), DecodeNormal(PixMax - a), PixMax>> : a \in Levels}

WithSlot(m, key, S) == {m} \cup {SetKey(m, key, Tex(x)) : x \in S}

SaveMaterials ==
    UNION {UNION {UNION {WithSlot(m3, K_normal, NormalTexels) :
                            m3 \in WithSlot(m2, K_ks, KsTexels)} :
                     m2 \in WithSlot(m1, K_kd, KdTexels)} :
              m1 \in {EmptyDict, SetKey(EmptyDict, K_bsdf, StrVal("pbr"))}}

W_map_Ka == <<"m", "a", "p", "_", "K", "a">>
W_map_bump == <<"m", "a", "p", "_", "b", "u", "m", "p">>
W_illum == <<"i", "l", "l", "u", "m">>

FileKeys ==
    {K_newmtl, K_bsdf, W_Kd, W_Ka, W_Ns, W_Ni, W_map_Ka, W_map_bump, W_illum}

FileData == {<<>>, <<"0", "1", "2">>, <<"tex.png">>}

FirstLines == {Line(K_newmtl, <<"m">>)}

FileLines == {Line(k, d) : k \in FileKeys, d \in FileData}

GoodFile ==
    <<Line(K_newmtl, <<"m">>), Line(W_Kd, <<"1", "0", "0">>),
      Line(W_map_Ks, <<"tex.png">>), Line(W_map_bump, <<"tex.png">>)>>

HeadlessFile ==
    <<Line(W_Kd, <<"1", "1", "1">>), Line(K_newmtl, <<"m">>), Line(W_Tf, <<"tex.png">>)>>

MergeIdle ==
    /\ pc = "idle"
    /\ materials = <<>>
    /\ materials0 = <<>>
    /\ texcoords = <<>>
    /\ texcoords0 = <<>>
    /\ tfaces = <<>>
    /\ tfaces0 = <<>>
    /\ mfaces = <<>>
    /\ uber_material = EmptyDict
    /\ max_res = <<0, 0>>
    /\ full_res = <<0, 0>>
    /\ s_coeff = <<Rat(0, 1), Rat(0, 1)>>
    /\ new_tverts = EmptyDict
    /\ new_tverts_data = <<>>
    /\ fi = 0
    /\ vi = 0
    /\ result = NoResult

InitRoundTrip ==
    /\ mpc = "save"
    /\ material \in SaveMaterials
    /\ clear_ks \in BOOLEAN
    /\ mtl_file = <<>>
    /\ img_files = EmptyDict

InitLoad ==
    /\ mpc = "parse"
    /\ material = EmptyDict
    /\ clear_ks = TRUE
    /\ \/ mtl_file \in {<<>>, GoodFile, HeadlessFile}
       \/ \E first \in FirstLines : \E n \in 0..MaxLines : \E rest \in [1..n -> FileLines] :
             mtl_file = <<first>> \o rest
    /\ img_files = SetKey(EmptyDict, "tex.png", <<1, PixMax, 0>>)

InitMtl ==
    /\ InitRoundTrip \/ InitLoad
    /\ mtl_materials = <<>>
    /\ line_no = 0
    /\ mat_no = 0
    /\ mtl_error = "none"
    /\ first_file = <<>>
    /\ first_images = EmptyDict
    /\ MergeIdle

NextMtl ==
    \/ SaveMtl
    \/ LoadParseLine
    \/ LoadParseLineFails
    \/ LoadParsed
    \/ LoadConvert
    \/ LoadConvertFails
    \/ LoadReturn
    \/ SaveLoaded

SpecMtl == InitMtl /\ [][NextMtl]_vars

----------------------------------------------------------------------------
(* Vocabulary of the properties of merge_materials *)

Corners == {<<f, c>> : f \in 1..Len(tfaces0), c \in 1..3}

OrigTi(q) == tfaces0[q[1]][q[2]]

MatOf(q) == mfaces[q[1]]

OrigUV(q) == texcoords0[OrigTi(q) + 1]

NewTi(q) == tfaces[q[1]][q[2]]

OrigPairs == {<<OrigTi(q), MatOf(q)>> : q \in Corners}

NewU(q) == new_tverts_data[NewTi(q) + 1][1]

NewV(q) == new_tverts_data[NewTi(q) + 1][2]

CellLow(q) == Rat(MatOf(q) * max_res[2], full_res[2])

CellHigh(q) == Rat((MatOf(q) + 1) * max_res[2], full_res[2])

IsPow2(n) == \E k \in 0..n : Pow2(k) = n

SmallestPow2AtLeast(p, x) ==
    /\ IsPow2(p)
    /\ p >= x
    /\ \A q \in 1..(p - 1) : IsPow2(q) => q < x

SlotRes(mats) ==
    {<<1, 1>>} \cup
    UNION {{mats[i][t]["res"] : t \in {"kd", "ks", "normal"} \cap DOMAIN mats[i]} :
              i \in 1..Len(mats)}

IsMaxOf(x, S) == x \in S /\ \A y \in S : y <= x

MixedNormals ==
    /\ \E i \in 1..Len(materials0) : Has(materials0[i], "normal")
    /\ \E i \in 1..Len(materials0) : ~Has(materials0[i], "normal")

SameShader ==
    \A i \in 1..Len(materials0) : materials0[i]["bsdf"] = materials0[1]["bsdf"]

Scenario ==
    /\ materials0 = <<Mat1x1, Mat1x1>>
    /\ texcoords0 = ScenarioTexcoords
    /\ tfaces0 = <<<<0, 1, 2>>, <<0, 1, 2>>>>
    /\ mfaces = <<0, 1>>

----------------------------------------------------------------------------
(* C1: after merge_materials returns, the new texture coordinate table has *)
(* exactly as many entries as there are distinct (original UV index,       *)
(* material index) pairs over all face corners.                            *)
C1_DedupCount ==
    pc = "done" => Len(result.value[2]) = Cardinality(OrigPairs)

C1_Witness ==
    /\ pc = "done"
    /\ Len(tfaces0) = 2
    /\ Cardinality(OrigPairs) \in 2..5
    /\ \E p, q \in Corners : OrigTi(p) = OrigTi(q) /\ MatOf(p) # MatOf(q)
    /\ \E p, q \in Corners : p # q /\ OrigTi(p) = OrigTi(q) /\ MatOf(p) = MatOf(q)

(* C2 as stated: after merge_materials returns, every rewritten corner has *)
(* u' in the half-open interval [i/sCol, (i+1)/sCol).                      *)
C2_Original ==
    pc = "done" =>
        \A q \in Corners : RatLe(CellLow(q), NewU(q)) /\ RatLt(NewU(q), CellHigh(q))

(* C2 amended: after merge_materials returns, every corner whose original  *)
(* u lies in [0, 1] has u' in the closed interval [i/sCol, (i+1)/sCol];    *)
(* a corner with u = 1 lies on the upper end (i+1)/sCol, and in exact      *)
(* arithmetic a corner with u < 1 lies strictly below it.                  *)
C2_Amended ==
    pc = "done" =>
        \A q \in Corners :
            (OrigUV(q)[1].n >= 0 /\ OrigUV(q)[1].n <= OrigUV(q)[1].d) =>
                /\ RatLe(CellLow(q), NewU(q))
                /\ RatLe(NewU(q), CellHigh(q))
                /\ OrigUV(q)[1].n = OrigUV(q)[1].d => RatEq(NewU(q), CellHigh(q))
                /\ OrigUV(q)[1].n < OrigUV(q)[1].d => RatLt(NewU(q), CellHigh(q))

C2_Witness ==
    /\ pc = "done"
    /\ full_res[2] # max_res[2] * Len(materials0)
    /\ full_res[1] # full_res[2]
    /\ \E q \in Corners : MatOf(q) = 1 /\ OrigUV(q)[1].n = OrigUV(q)[1].d
    /\ \E q \in Corners : OrigUV(q)[1].n > 0 /\ OrigUV(q)[1].n < OrigUV(q)[1].d
    /\ \E q \in Corners : OrigUV(q)[1].n > OrigUV(q)[1].d

(* C3: the merged atlas dimensions are, on each axis, the smallest power   *)
(* of two no smaller than H (height) and W * m (width), where (H, W) is    *)
(* the maximum resolution over the kd, ks and normal slots of all          *)
(* materials and m the material count.                                     *)
C3_AtlasResolution ==
    pc \in {"rewrite", "return", "done"} =>
        /\ IsMaxOf(max_res[1], {r[1] : r \in SlotRes(materials0)})
        /\ IsMaxOf(max_res[2], {r[2] : r \in SlotRes(materials0)})
        /\ SmallestPow2AtLeast(full_res[1], max_res[1])
        /\ SmallestPow2AtLeast(full_res[2], max_res[2] * Len(materials0))
        /\ \A t \in DOMAIN uber_material \ {"name", "bsdf"} :
              uber_material[t]["res"] = full_res

C3_Witness ==
    /\ pc = "done"
    /\ Len(materials0) = 2
    /\ max_res[2] * 2 = full_res[2]
    /\ max_res[2] = 2
    /\ max_res[1] = 3
    /\ full_res[1] = 4

(* C4: a non-empty list with one shader model and mixed normal presence    *)
(* raises no mismatch error; the normal-presence check never fails after   *)
(* normalization; the uber material has one merged normal buffer with one  *)
(* cell per input material.                                                *)
C4_NormalNormalization ==
    /\ pc = "check" =>
          \A i \in 1..Len(materials) :
              Has(materials[i], "normal") = Has(materials[1], "normal")
    /\ (MixedNormals /\ SameShader) =>
          /\ pc # "error"
          /\ pc = "done" =>
                /\ Has(result.value[1], "normal")
                /\ LET cells == result.value[1]["normal"]["data"]["cells"]
                   IN  /\ Len(cells) = Len(materials0)
                       /\ \A i \in 1..Len(materials0) :
                             cells[i]["src"] =
                                 IF Has(materials0[i], "normal")
                                 THEN materials0[i]["normal"]["data"]
                                 ELSE "flat_normal"

C4_Witness ==
    /\ pc = "done"
    /\ MixedNormals
    /\ SameShader
    /\ ~Has(materials0[1], "normal")

(* C5: with an empty material list, or a material whose shader model       *)
(* differs from material 0's, merge_materials fails with a hard error and  *)
(* produces no uber material, no new table and no rewritten face table.    *)
C5_HardFailure ==
    (Len(materials0) = 0 \/ ~SameShader) =>
        /\ pc \in {"start", "patch", "check", "error"}
        /\ pc = "error" => result.status = "AssertionError" /\ result.value = <<>>
        /\ pc # "error" => result = NoResult
        /\ DOMAIN uber_material = {}
        /\ new_tverts_data = <<>>
        /\ tfaces = tfaces0

C5_Witness ==
    /\ pc = "error"
    /\ Len(materials0) = 2
    /\ ~SameShader
    /\ Len(tfaces0) > 0

(* C6 as stated: the call never changes its input material records or     *)
(* the input texture coordinate table, whether it returns or fails.        *)
C6_Original ==
    materials = materials0 /\ texcoords = texcoords0

(* C6 amended: the call never changes the texture coordinate table nor any *)
(* slot an input record already has; the only change to an input record   *)
(* is that, when some records have a normal and others do not, each record *)
(* lacking one gains a normal slot bound to a flat 1x1 buffer (also when   *)
(* the call then fails); the uber material is a separate record.           *)
C6_Amended ==
    /\ texcoords = texcoords0
    /\ Len(materials) = Len(materials0)
    /\ \A i \in 1..Len(materials0) :
          /\ DOMAIN materials0[i] \subseteq DOMAIN materials[i]
          /\ \A k \in DOMAIN materials0[i] : materials[i][k] = materials0[i][k]
          /\ DOMAIN materials[i] \subseteq DOMAIN materials0[i] \cup {"normal"}
          /\ DOMAIN materials[i] # DOMAIN materials0[i] =>
                /\ MixedNormals
                /\ materials[i]["normal"] = Texture2D(<<1, 1>>, "flat_normal")
    /\ pc = "done" =>
          /\ result.value[1]["name"] = "uber_material"
          /\ MixedNormals =>
                \A i \in 1..Len(materials) : Has(materials[i], "normal")

C6_Witness ==
    /\ pc = "error"
    /\ materials # materials0
    /\ \E i \in 1..Len(materials0) :
          Has(materials0[i], "normal") /\ materials0[i]["normal"]["res"] # <<1, 1>>

(* C9 as stated: the two-material scenario yields 6 new UV entries, an     *)
(* atlas width that is a power of two >= 2, sCol = 1, and u' in [0, 0.5)   *)
(* for material 0 and in [0.5, 1) for material 1.                          *)
C9_Original ==
    (Scenario /\ pc = "done") =>
        /\ Len(new_tverts_data) = 6
        /\ IsPow2(full_res[2])
        /\ full_res[2] >= 2
        /\ RatEq(s_coeff[2], Rat(1, 1))
        /\ \A q \in Corners :
              /\ MatOf(q) = 0 =>
                    RatLe(Rat(0, 1), NewU(q)) /\ RatLt(NewU(q), Rat(1, 2))
              /\ MatOf(q) = 1 =>
                    RatLe(Rat(1, 2), NewU(q)) /\ RatLt(NewU(q), Rat(1, 1))

(* C9 amended: the two-material scenario yields 6 new UV entries (3 per    *)
(* material, none shared), atlas width 2 (a power of two >= 2), sCol = 2,  *)
(* and u' in the closed interval [0, 0.5] for material 0 and [0.5, 1] for  *)
(* material 1, the corner with u = 1 lying on the upper end.               *)
C9_Amended ==
    (Scenario /\ pc = "done") =>
        /\ Len(new_tverts_data) = 6
        /\ \A p, q \in Corners : NewTi(p) = NewTi(q) <=> p = q
        /\ IsPow2(full_res[2])
        /\ full_res[2] = 2
        /\ RatEq(s_coeff[2], Rat(2, 1))
        /\ \A q \in Corners :
              /\ MatOf(q) = 0 =>
                    RatLe(Rat(0, 1), NewU(q)) /\ RatLe(NewU(q), Rat(1, 2))
              /\ MatOf(q) = 1 =>
                    RatLe(Rat(1, 2), NewU(q)) /\ RatLe(NewU(q), Rat(1, 1))
              /\ OrigTi(q) = 1 =>
                    RatEq(NewU(q), Rat(MatOf(q) + 1, 2))

C9_Witness == Scenario /\ pc = "done"

(* C10: after merge_materials returns, every rewritten corner index is a   *)
(* valid index into the new table, its entry equals                        *)
(* ((i + u) / sCol, v / sRow), and two corners share a new index exactly   *)
(* when they had the same original UV index and material index.            *)
C10_Rewrite ==
    pc = "done" =>
        /\ result.value[3] = tfaces
        /\ \A q \in Corners :
              /\ NewTi(q) \in 0..(Len(new_tverts_data) - 1)
              /\ NewU(q).n * OrigUV(q)[1].d * full_res[2] =
                    (MatOf(q) * OrigUV(q)[1].d + OrigUV(q)[1].n) * max_res[2] * NewU(q).d
              /\ NewV(q).n * OrigUV(q)[2].d * full_res[1] =
                    OrigUV(q)[2].n * max_res[1] * NewV(q).d
        /\ \A p, q \in Corners :
              NewTi(p) = NewTi(q) <=>
                  (OrigTi(p) = OrigTi(q) /\ MatOf(p) = MatOf(q))

C10_Witness ==
    /\ pc = "done"
    /\ full_res[1] # max_res[1]
    /\ full_res[2] # max_res[2] * Len(materials0)
    /\ Len(materials0) = 2
    /\ \E q \in Corners : MatOf(q) = 1 /\ OrigUV(q)[1].n = 1 /\ OrigUV(q)[2].n = 1

----------------------------------------------------------------------------
(* Vocabulary of the properties of the codec *)

RoundTrip == first_file # <<>>

IsFixedLine(line) == line.prefix \in {W_Ka, W_Ns, W_Ni, W_Tf}

FixedLines(file) == SelectSeq(file, IsFixedLine)

SameImage(fname) ==
    fname \in DOMAIN first_images =>
        fname \in DOMAIN img_files /\ img_files[fname] = first_images[fname]

ListedKeys == {K_bsdf, K_map_kd, K_map_ks, K_bump, K_map_ns, K_ns, K_ka, K_refl}

ContainsListed(key) ==
    \E a \in 1..Len(key) : \E b \in a..Len(key) : SubSeq(key, a, b) \in ListedKeys

ContainsNewmtl(key) ==
    \E a \in 1..Len(key) : \E b \in a..Len(key) : SubSeq(key, a, b) = K_newmtl

LineParsedInRecord ==
    /\ mpc = "parse"
    /\ line_no >= 1
    /\ Len(mtl_materials) >= 1

LastLine == mtl_file[line_no]

LastKey == Lower(LastLine.prefix)

Stored == mtl_materials[Len(mtl_materials)][LastKey]

StoredAsString == Stored.type = "str" /\ Stored.val = LastLine.data[1]

StoredAsFloats ==
    /\ Stored.type = "tensor"
    /\ Len(Stored.val) = Len(LastLine.data)
    /\ \A i \in 1..Len(LastLine.data) :
          \/ LastLine.data[i] = "0" /\ Stored.val[i] = 0
          \/ LastLine.data[i] = "1" /\ Stored.val[i] = 1
          \/ LastLine.data[i] = "2" /\ Stored.val[i] = 2

(* C7 as stated: save_mtl, load_mtl with default options, save_mtl again   *)
(* yields the same Ka, Ns, Ni and Tf lines and pixel-identical kd, ks and  *)
(* normal images as the first serialization.                               *)
C7_Original ==
    (mpc = "done" /\ RoundTrip /\ clear_ks) =>
        /\ FixedLines(mtl_file) = FixedLines(first_file)
        /\ SameImage("texture_kd.png")
        /\ SameImage("texture_ks.png")
        /\ SameImage("texture_n.png")

(* C7 amended: the round trip yields the same Ka, Ns, Ni and Tf lines and  *)
(* pixel-identical kd and normal images for every image the first          *)
(* serialization wrote; the ks image keeps its other channels but its      *)
(* first (occlusion) channel is zero in the second serialization, because  *)
(* load_mtl clears it by default; with clear_ks off it is identical too.   *)
C7_Amended ==
    (mpc = "done" /\ RoundTrip) =>
        /\ FixedLines(mtl_file) = FixedLines(first_file)
        /\ Len(FixedLines(mtl_file)) = 4
        /\ SameImage("texture_kd.png")
        /\ SameImage("texture_n.png")
        /\ ~clear_ks => SameImage("texture_ks.png")
        /\ (clear_ks /\ "texture_ks.png" \in DOMAIN first_images) =>
              /\ "texture_ks.png" \in DOMAIN img_files
              /\ img_files["texture_ks.png"][1] = 0
              /\ img_files["texture_ks.png"][2] = first_images["texture_ks.png"][2]
              /\ img_files["texture_ks.png"][3] = first_images["texture_ks.png"][3]

C7_Witness ==
    /\ mpc = "done"
    /\ RoundTrip
    /\ clear_ks
    /\ DOMAIN first_images = {"texture_kd.png", "texture_ks.png", "texture_n.png"}
    /\ first_images["texture_ks.png"][1] # 0
    /\ first_images["texture_kd.png"][1] = PixMax
    /\ first_images["texture_n.png"][1] = 0

(* C8 as stated: a line inside a record is stored as a vector of floats    *)
(* unless its lower-cased key is exactly one of bsdf, map_kd, map_ks,      *)
(* bump, map_ns, ns, ka, refl (or newmtl); only those eight keys are       *)
(* stored as the first token string.                                       *)
C8_Original ==
    (LineParsedInRecord /\ LastKey # K_newmtl) =>
        IF LastKey \in ListedKeys THEN StoredAsString ELSE StoredAsFloats

(* C8 amended: a line inside a record whose lower-cased key contains none  *)
(* of bsdf, map_kd, map_ks, bump, map_ns, ns, ka, refl as a substring (and *)
(* does not contain newmtl) is stored as a vector of floats; every key     *)
(* that contains one of the eight as a substring, such as map_ka or        *)
(* map_bump, is stored as the first token string.                          *)
C8_Amended ==
    (LineParsedInRecord /\ ~ContainsNewmtl(LastKey)) =>
        IF ContainsListed(LastKey) THEN StoredAsString ELSE StoredAsFloats

C8_Witness ==
    /\ LineParsedInRecord
    /\ line_no = 2
    /\ LastKey = <<"m", "a", "p", "_", "k", "a">>
    /\ Len(LastLine.data) = 3
    /\ StoredAsString
    /\ mtl_file[1].prefix = K_newmtl

====
